---- MODULE Spec2Model ----
(***************************************************************************)
(* A model of the time-alignment and spike-table routines of               *)
(* src/src/data.py and src/src/proc.py.                                    *)
(*                                                                         *)
(* numpy arrays are modelled as sequences.  The source indexes from 0 and  *)
(* sequences from 1: a[i] of the source is a[i + 1] here, and every index  *)
(* the source RETURNS (onsets, offsets, searchsorted positions) is kept    *)
(* 0-based, as the source has it.                                          *)
(*                                                                         *)
(* Real-valued samples and times are exact rationals [num, den]; floating  *)
(* point rounding is not modelled.                                         *)
(***************************************************************************)
EXTENDS Integers, Sequences, FiniteSets, TLC

VARIABLES
    x,                \* binary_onsets: the signal
    thresh,           \* binary_onsets: the threshold
    edges,            \* binary_onsets: what the call produced
    x_sync,           \* get_tvec: the sync channel
    sync_timestamps,  \* get_tvec: the reference timestamps
    sr,               \* get_tvec: the sample rate
    tvec,             \* get_tvec: what the call produced
    spikes,           \* the caller's spike table
    metrics,          \* the caller's metrics table
    in_spikes,        \* the spike table the last call was given
    in_metrics,       \* the metrics table the last call was given
    calls,            \* the last two calls made on the tables, oldest first
    x_t,              \* remap_time_basis: the time basis of x
    y_t,              \* remap_time_basis: the time basis to map x onto
    x_mapped,         \* remap_time_basis: what the call produced
    t,                \* label_time_vector: the time vector
    starts,           \* label_time_vector: the interval starts
    ends,             \* label_time_vector: the interval ends
    labels,           \* label_time_vector: the interval labels
    df,               \* label_time_vector: what the call produced
    ks_dir,           \* get_concatenated_spikes: the files of the sorter directory
    sorter,           \* get_concatenated_spikes: what the sorter's files hold
    use_label,        \* get_concatenated_spikes: the cluster-inclusion policy
    loaded,           \* get_concatenated_spikes: what the call produced
    spikes_list,      \* concatenate_probes: the caller's list of spike tables
    metrics_list,     \* concatenate_probes: the caller's list of metrics tables
    probe_labels,     \* concatenate_probes: the probe labels
    in_lists,         \* concatenate_probes: the lists as the last call was given them
    concat,           \* concatenate_probes: what the last call produced
    tvec_x,           \* get_eta: the time vector of x
    event_ts,         \* get_eta: the event timestamps
    pre_win,          \* get_eta: the window before an event
    post_win,         \* get_eta: the window after an event
    eta,              \* get_eta: what the call produced
    spike_ts,         \* bin_trains: the spike times
    spike_idx,        \* bin_trains: the cell index of each spike
    max_time,         \* bin_trains: the end of the binned range
    binsize,          \* bin_trains: the bin width
    start_time,       \* bin_trains: the start of the binned range
    raster            \* bin_trains: what the call produced

edgeVars == <<x, thresh, edges>>
tvecVars == <<x_sync, sync_timestamps, sr, tvec>>

tableVars == <<spikes, metrics, in_spikes, in_metrics, calls>>

remapVars == <<x_t, y_t, x_mapped>>
labelVars == <<t, starts, ends, labels, df>>

loadVars == <<ks_dir, sorter, use_label, loaded>>
concatVars == <<spikes_list, metrics_list, probe_labels, in_lists, concat>>
etaVars == <<tvec_x, event_ts, pre_win, post_win, eta>>
binVars == <<spike_ts, spike_idx, max_time, binsize, start_time, raster>>

vars == <<edgeVars, tvecVars, tableVars, remapVars, labelVars,
          loadVars, concatVars, etaVars, binVars>>

-----------------------------------------------------------------------------
(* Bounds of the model and constants of the program                        *)

MaxLen == 5          \* longest signal given to binary_onsets
MaxSyncLen == 8      \* longest sync channel given to get_tvec
MaxTs == 2           \* most reference timestamps given to get_tvec
MaxSr == 2           \* largest sample rate given to get_tvec

SyncThresh == 1      \* the threshold get_tvec passes to binary_onsets

Vals == {0, 1, 2}            \* sample values of a signal
Threshs == {0, 1}            \* thresholds
SyncVals == {1, 2}           \* sample values of a sync channel: at, above threshold
TimeVals == {0, 1, 2}        \* reference timestamps (seconds)

ScenarioSignal == <<0, 0, 2, 2, 0, 0, 2, 2, 0>>

SeqsUpTo(S, n) == UNION {[1..k -> S] : k \in 0..n}

StrictlyIncreasing(s) == \A i \in 1..(Len(s) - 1) : s[i] < s[i + 1]

-----------------------------------------------------------------------------
(* numpy helpers, as the source uses them                                  *)

\* x > thresh, elementwise
gt(a, th) == [i \in 1..Len(a) |-> a[i] > th]

\* xbool.astype('int')
astype_int(b) == [i \in 1..Len(b) |-> IF b[i] THEN 1 ELSE 0]

\* np.diff(a): a[i+1] - a[i]; one element shorter than a
np_diff(a) == [i \in 1..(Len(a) - 1) |-> a[i + 1] - a[i]]

\* np.where(a == v)[0]: the 0-based indices i >= from with a[i] == v, ascending
RECURSIVE np_where_eq(_, _, _)
np_where_eq(a, v, from) ==
    IF from >= Len(a) THEN <<>>
    ELSE (IF a[from + 1] = v THEN <<from>> ELSE <<>>) \o np_where_eq(a, v, from + 1)

\* a[1:]
from_1(a) == IF Len(a) = 0 THEN <<>> ELSE Tail(a)

\* a[:-1]
upto_last(a) == IF Len(a) = 0 THEN <<>> ELSE SubSeq(a, 1, Len(a) - 1)

-----------------------------------------------------------------------------
(* binary_onsets                                                           *)

Raised(e) == [status |-> e, ons |-> <<>>, offs |-> <<>>]

\* the slip of cutting the offsets at the wrong end: offs[:-1] for offs[1:]
binary_onsets_wrong_end(sig, th) ==
    IF Len(sig) = 0 THEN Raised("IndexError")
    ELSE
    LET xbool == gt(sig, th)
        d     == np_diff(astype_int(xbool))
        ons0  == np_where_eq(d, 1, 0)
        offs0 == np_where_eq(d, -1, 0)
        offs1 == IF xbool[1] THEN upto_last(offs0) ELSE offs0
        ons1  == IF xbool[Len(xbool)] THEN upto_last(ons0) ELSE ons0
    IN  IF Len(ons1) # Len(offs1) THEN Raised("ValueError")
        ELSE [status |-> "ok", ons |-> ons1, offs |-> offs1]

\* the slip of reporting the first sample above threshold: index + 1
binary_onsets_next_sample(sig, th) ==
    IF Len(sig) = 0 THEN Raised("IndexError")
    ELSE
    LET xbool == gt(sig, th)
        d     == np_diff(astype_int(xbool))
        ons0  == np_where_eq(d, 1, 0)
        offs0 == np_where_eq(d, -1, 0)
        offs1 == IF xbool[1] THEN from_1(offs0) ELSE offs0
        ons1  == IF xbool[Len(xbool)] THEN upto_last(ons0) ELSE ons0
    IN  IF Len(ons1) # Len(offs1) THEN Raised("ValueError")
        ELSE [status |-> "ok",
              ons  |-> [i \in 1..Len(ons1) |-> ons1[i] + 1],
              offs |-> [i \in 1..Len(offs1) |-> offs1[i] + 1]]

\* data.binary_onsets(x, thresh)
binary_onsets(sig, th) ==
    IF Len(sig) = 0 THEN Raised("IndexError")      \* xbool[0] of an empty array
    ELSE
    LET xbool == gt(sig, th)
        d     == np_diff(astype_int(xbool))
        ons0  == np_where_eq(d, 1, 0)
        offs0 == np_where_eq(d, -1, 0)
        offs1 == IF xbool[1] THEN from_1(offs0) ELSE offs0
        ons1  == IF xbool[Len(xbool)] THEN upto_last(ons0) ELSE ons0
    IN  IF Len(ons1) # Len(offs1) THEN Raised("ValueError")
        ELSE [status |-> "ok", ons |-> ons1, offs |-> offs1]

\* proc.binary_onsets(x, thresh): the same routine, defined a second time
proc_binary_onsets(sig, th) ==
    IF Len(sig) = 0 THEN Raised("IndexError")
    ELSE
    LET xbool == gt(sig, th)
        d     == np_diff(astype_int(xbool))
        ons0  == np_where_eq(d, 1, 0)
        offs0 == np_where_eq(d, -1, 0)
        offs1 == IF xbool[1] THEN from_1(offs0) ELSE offs0
        ons1  == IF xbool[Len(xbool)] THEN upto_last(ons0) ELSE ons0
    IN  IF Len(ons1) # Len(offs1) THEN Raised("ValueError")
        ELSE [status |-> "ok", ons |-> ons1, offs |-> offs1]

-----------------------------------------------------------------------------
(* Exact rationals: [num, den] with den > 0                                *)

Rat(n) == [num |-> n, den |-> 1]
RatAdd(a, b) == [num |-> a.num * b.den + b.num * a.den, den |-> a.den * b.den]
RatSub(a, b) == [num |-> a.num * b.den - b.num * a.den, den |-> a.den * b.den]
RatMulInt(a, k) == [num |-> a.num * k, den |-> a.den]
RatDivInt(a, k) == [num |-> a.num, den |-> a.den * k]         \* k > 0
RatEq(a, b) == a.num * b.den = b.num * a.den
RatLeq(a, b) == a.num * b.den <= b.num * a.den

\* an element np.empty_like left unwritten
Uninit == [num |-> 0, den |-> 0]

-----------------------------------------------------------------------------
(* get_tvec                                                                *)

\* np.empty_like(a): the length of a, no element written
empty_like(a) == [i \in 1..Len(a) |-> Uninit]

\* np.linspace(start, stop, num): num evenly spaced values, both ends included
linspace(start, stop, num) ==
    IF num <= 0 THEN <<>>
    ELSE IF num = 1 THEN <<start>>
    ELSE [j \in 1..num |->
             RatAdd(start, RatMulInt(RatDivInt(RatSub(stop, start), num - 1), j - 1))]

\* a[lo:hi] = seg, 0 <= lo <= hi <= len(a) and len(seg) == hi - lo
set_slice(a, lo, hi, seg) ==
    [i \in 1..Len(a) |-> IF lo < i /\ i <= hi THEN seg[i - lo] ELSE a[i]]

\* the loop of lines 125-128, from iteration ii (0-based) on
RECURSIVE interp_onsets(_, _, _, _)
interp_onsets(tv, onsets, ts, ii) ==
    IF ii >= Len(onsets) - 1 THEN tv
    ELSE LET nsamps == onsets[ii + 2] - onsets[ii + 1]
             temp   == linspace(Rat(ts[ii + 1]), Rat(ts[ii + 2]), nsamps)
         IN  interp_onsets(set_slice(tv, onsets[ii + 1], onsets[ii + 2], temp),
                           onsets, ts, ii + 1)

\* the sign slip first_t = sync_timestamps[0] + onsets[0] / sr
first_seg_plus(onsets, ts, rate) ==
    LET first_t == RatAdd(Rat(ts[1]), RatDivInt(Rat(onsets[1]), rate))
    IN  linspace(first_t, Rat(ts[1]), onsets[1])

\* lines 131-132: the times before the first sync pulse
first_seg(onsets, ts, rate) ==
    LET first_t == RatSub(Rat(ts[1]), RatDivInt(Rat(onsets[1]), rate))
    IN  linspace(first_t, Rat(ts[1]), onsets[1])

\* the slip of starting the last segment one sample period after the pulse
last_seg_late(sig, onsets, ts, rate) ==
    LET last_seg_length == Len(sig) - onsets[Len(onsets)]
        t_last == RatAdd(Rat(ts[Len(ts)]), RatDivInt(Rat(1), rate))
    IN  linspace(t_last,
                 RatAdd(t_last, RatDivInt(Rat(last_seg_length), rate)),
                 last_seg_length)

\* lines 136-137: the times from the last sync pulse on
last_seg(sig, onsets, ts, rate) ==
    LET last_seg_length == Len(sig) - onsets[Len(onsets)]
        t_last == Rat(ts[Len(ts)])
    IN  linspace(t_last,
                 RatAdd(t_last, RatDivInt(Rat(last_seg_length), rate)),
                 last_seg_length)

TvecRaised(e) == [status |-> e, tvec |-> <<>>]

\* the slip of rejecting only a surplus of onsets: n_ons > n_ts for n_ons != n_ts
get_tvec_partial(sig, ts, rate) ==
    LET e == binary_onsets(sig, SyncThresh)
    IN  IF e.status # "ok" THEN TvecRaised(e.status)
        ELSE IF Len(e.ons) > Len(ts) THEN TvecRaised("ValueError")
        ELSE IF Len(ts) = 0 \/ Len(e.ons) = 0 THEN TvecRaised("IndexError")
        ELSE
        LET onsets == e.ons
            tv0 == empty_like(sig)
            tv1 == interp_onsets(tv0, onsets, ts, 0)
            tv2 == set_slice(tv1, 0, onsets[1], first_seg(onsets, ts, rate))
            tv3 == set_slice(tv2, onsets[Len(onsets)], Len(sig),
                             last_seg(sig, onsets, ts, rate))
        IN  [status |-> "ok", tvec |-> tv3]

\* data.get_tvec(x_sync, sync_timestamps, sr)
get_tvec(sig, ts, rate) ==
    LET e == binary_onsets(sig, SyncThresh)
    IN  IF e.status # "ok" THEN TvecRaised(e.status)
        ELSE IF Len(e.ons) # Len(ts) THEN TvecRaised("ValueError")
        ELSE IF Len(ts) = 0 THEN TvecRaised("IndexError")   \* sync_timestamps[0]
        ELSE
        LET onsets == e.ons
            tv0 == empty_like(sig)
            tv1 == interp_onsets(tv0, onsets, ts, 0)
            tv2 == set_slice(tv1, 0, onsets[1], first_seg(onsets, ts, rate))
            tv3 == set_slice(tv2, onsets[Len(onsets)], Len(sig),
                             last_seg(sig, onsets, ts, rate))
        IN  [status |-> "ok", tvec |-> tv3]

-----------------------------------------------------------------------------
(* The spike and metrics tables                                            *)
(*                                                                         *)
(* A spike table is a sequence of row groups [cluster_id, cell_id, depth,  *)
(* n_rows]: n_rows rows (spikes, one ts each) that agree on the three      *)
(* columns.  A metrics table is a sequence of rows, one per cluster.       *)
(* isi_viol, amplitude_cutoff and presence_ratio are in hundredths.        *)

\* df[df['cluster_id'].isin(clu_list)]
isin(tbl, clu_list) ==
    LET keep(r) == r.cluster_id \in clu_list
    IN  SelectSeq(tbl, keep)

\* the rows of the spike table: groups that hold at least one row
rows_of(sp) ==
    LET some(g) == g.n_rows > 0
    IN  SelectSeq(sp, some)

cluster_ids(tbl) == {tbl[i].cluster_id : i \in 1..Len(tbl)}

RECURSIVE sum_seq(_)
sum_seq(s) == IF s = <<>> THEN 0 ELSE Head(s) + sum_seq(Tail(s))

\* spikes.groupby('cluster_id').count()['ts'] at one cluster
n_spikes(sp, c) ==
    sum_seq([i \in 1..Len(sp) |-> IF sp[i].cluster_id = c THEN sp[i].n_rows ELSE 0])

\* the keys of a groupby, ascending
RECURSIVE ascending(_)
ascending(S) ==
    IF S = {} THEN <<>>
    ELSE LET m == CHOOSE k \in S : \A j \in S : k <= j
         IN  <<m>> \o ascending(S \ {m})

\* metrics.query(expression), one row
query(expression, r) ==
    CASE expression = "isi_viol<2 " -> r.isi_viol < 200
      [] expression = "amplitude_cutoff<0.1" -> r.amplitude_cutoff < 10
      [] expression = "presence_ratio>0.9" -> r.presence_ratio > 90

\* data.filter_by_metric(spikes, metrics, expression)
filter_by_metric(sp, mt, expression) ==
    LET passes(r) == query(expression, r)
        clu_list  == cluster_ids(SelectSeq(mt, passes))
    IN  [spikes |-> isin(sp, clu_list), metrics |-> isin(mt, clu_list)]

\* the slip of thresholding against the mean count of the table
filter_by_spikerate_mean(sp, mt, th) ==
    LET present == cluster_ids(rows_of(sp))
        total   == sum_seq([i \in 1..Len(sp) |-> sp[i].n_rows])
        mask    == {c \in present : n_spikes(sp, c) * Cardinality(present) > total}
    IN  isin(sp, mask)

\* data.filter_by_spikerate(spikes, metrics, thresh): returns the spikes only
filter_by_spikerate(sp, mt, th) ==
    LET present == cluster_ids(rows_of(sp))
        mask    == {c \in present : n_spikes(sp, c) > th}
        spikes2 == isin(sp, mask)
    IN  spikes2

MinSpikes == 100

\* data.filter_default_metrics(spikes, metrics)
filter_default_metrics(sp, mt) ==
    LET s0 == filter_by_spikerate(sp, mt, MinSpikes)
        f1 == filter_by_metric(s0, mt, "isi_viol<2 ")
        f2 == filter_by_metric(f1.spikes, f1.metrics, "amplitude_cutoff<0.1")
        f3 == filter_by_metric(f2.spikes, f2.metrics, "presence_ratio>0.9")
    IN  f3

-----------------------------------------------------------------------------
(* resort_by_depth                                                         *)

\* spikes[['cluster_id', 'depth']].groupby('cluster_id').mean().reset_index():
\* one row per cluster, ascending cluster_id, the mean depth as sum / count,
\* and the fresh 0-based index
mean_depth_by_cluster(sp) ==
    LET keys == ascending(cluster_ids(rows_of(sp)))
        wsum(c) == sum_seq([i \in 1..Len(sp) |->
                       IF sp[i].cluster_id = c THEN sp[i].depth * sp[i].n_rows ELSE 0])
    IN  [i \in 1..Len(keys) |->
            [index |-> i - 1, cluster_id |-> keys[i],
             depth |-> [num |-> wsum(keys[i]), den |-> n_spikes(sp, keys[i])]]]

\* dd.sort_values('depth'): each row keeps its index label
RECURSIVE insert_by_depth(_, _)
insert_by_depth(sorted, r) ==
    IF sorted = <<>> THEN <<r>>
    ELSE IF RatLeq(Head(sorted).depth, r.depth)
         THEN <<Head(sorted)>> \o insert_by_depth(Tail(sorted), r)
         ELSE <<r>> \o sorted

RECURSIVE sort_values_depth(_)
sort_values_depth(dd) ==
    IF dd = <<>> THEN <<>>
    ELSE insert_by_depth(sort_values_depth(SubSeq(dd, 1, Len(dd) - 1)), dd[Len(dd)])

\* dd.reset_index().rename({'index': 'cell_id'}, axis=1).drop('depth', axis=1):
\* the index the rows carried becomes the column cell_id
index_to_cell_id(dd) ==
    [i \in 1..Len(dd) |-> [cell_id |-> dd[i].index, cluster_id |-> dd[i].cluster_id]]

\* spikes.drop('cell_id', axis=1).merge(dd, on='cluster_id')
merge_cell_id(sp, dd) ==
    LET cell(c) == (CHOOSE i \in 1..Len(dd) : dd[i].cluster_id = c)
        live == rows_of(sp)
    IN  [i \in 1..Len(live) |->
            [cluster_id |-> live[i].cluster_id,
             cell_id    |-> dd[cell(live[i].cluster_id)].cell_id,
             depth      |-> live[i].depth,
             n_rows     |-> live[i].n_rows]]

\* data.resort_by_depth(spikes)
resort_by_depth(sp) ==
    LET dd0 == mean_depth_by_cluster(sp)
        dd1 == sort_values_depth(dd0)
        dd2 == index_to_cell_id(dd1)
    IN  merge_cell_id(sp, dd2)

-----------------------------------------------------------------------------
(* remap_time_basis                                                        *)

\* np.searchsorted(a, v), side='left': the bisection on a, 0-based result
RECURSIVE bisect_left(_, _, _, _)
bisect_left(a, v, lo, hi) ==
    IF lo >= hi THEN lo
    ELSE LET mid == lo + ((hi - lo) \div 2)
         IN  IF a[mid + 1] < v THEN bisect_left(a, v, mid + 1, hi)
             ELSE bisect_left(a, v, lo, mid)

\* np.searchsorted(x_t, y_t), elementwise over y_t
searchsorted(a, vs) == [j \in 1..Len(vs) |-> bisect_left(a, vs[j], 0, Len(a))]

\* a[idx] for an integer index array: a negative index counts from the end
take(a, idx) ==
    IF \E j \in 1..Len(idx) : idx[j] >= Len(a) \/ idx[j] < -Len(a)
    THEN [status |-> "IndexError", x_mapped |-> <<>>]
    ELSE [status |-> "ok",
          x_mapped |-> [j \in 1..Len(idx) |->
                           IF idx[j] < 0 THEN a[idx[j] + Len(a) + 1]
                           ELSE a[idx[j] + 1]]]

\* proc.remap_time_basis(x, x_t, y_t)
remap_time_basis(sig, sig_t, target_t) ==
    IF Len(sig) # Len(sig_t) THEN [status |-> "AssertionError", x_mapped |-> <<>>]
    ELSE LET pos == searchsorted(sig_t, target_t)
             idx == [j \in 1..Len(pos) |-> pos[j] - 1]
         IN  take(sig, idx)

-----------------------------------------------------------------------------
(* label_time_vector                                                       *)

\* the intervals [start, end) of the data model
in_interval_left_closed(tv, start, end) == tv >= start /\ tv < end

\* df.query('t>@start & t<=@end'), one row
in_interval(tv, start, end) == tv > start /\ tv <= end

\* zip(starts, ends, labels) stops with the shortest list
zip_len(a, b, c) ==
    CHOOSE n \in {Len(a), Len(b), Len(c)} : n <= Len(a) /\ n <= Len(b) /\ n <= Len(c)

\* the loop of lines 198-200, from interval k (1-based) on
RECURSIVE assign_labels(_, _, _, _, _, _)
assign_labels(col, tv, ss, es, ls, k) ==
    IF k > zip_len(ss, es, ls) THEN col
    ELSE assign_labels(
             [i \in 1..Len(col) |->
                 IF in_interval(tv[i], ss[k], es[k]) THEN ls[k] ELSE col[i]],
             tv, ss, es, ls, k + 1)

\* pd.factorize(col)[0]: the rank of each value by first appearance
factorize(col) ==
    LET first(v) == CHOOSE i \in 1..Len(col) :
                        col[i] = v /\ \A j \in 1..(i - 1) : col[j] # v
    IN  [i \in 1..Len(col) |->
            Cardinality({first(col[j]) : j \in 1..Len(col)} \cap 1..(first(col[i]) - 1))]

\* proc.label_time_vector(t, starts, ends, labels)
label_time_vector(tv, ss, es, ls) ==
    LET none == [i \in 1..Len(tv) |-> "none"]
        col  == assign_labels(none, tv, ss, es, ls, 1)
        ints == factorize(col)
    IN  [status |-> "ok",
         rows |-> [i \in 1..Len(tv) |->
                      [t |-> tv[i], label |-> col[i], label_int |-> ints[i]]]]

Pending == [status |-> "pending", ons |-> <<>>, offs |-> <<>>, fn |-> "none"]

WithFn(r, f) == [status |-> r.status, ons |-> r.ons, offs |-> r.offs, fn |-> f]

-----------------------------------------------------------------------------
(* Values of the variables a specification does not use                    *)

IdleTvec == [status |-> "pending", tvec |-> <<>>]

EdgeIdle == x = <<>> /\ thresh = 0 /\ edges = Pending

TvecIdle == x_sync = <<>> /\ sync_timestamps = <<>> /\ sr = 1 /\ tvec = IdleTvec

NoCalls == <<"none", "none">>

IdleRemap == [status |-> "pending", x_mapped |-> <<>>]

RemapIdle == x_t = <<>> /\ y_t = <<>> /\ x_mapped = IdleRemap

IdleDf == [status |-> "pending", rows |-> <<>>]

LabelIdle ==
    /\ t = <<>> /\ starts = <<>> /\ ends = <<>> /\ labels = <<>>
    /\ df = IdleDf

TableIdle ==
    /\ spikes = <<>> /\ metrics = <<>>
    /\ in_spikes = <<>> /\ in_metrics = <<>>
    /\ calls = NoCalls

NoSorter == [n |-> 0, group |-> <<>>, KSLabel |-> <<>>]

IdleLoaded == [status |-> "pending", spikes |-> <<>>, metrics |-> <<>>, written |-> {}]

LoadIdle ==
    /\ ks_dir = {} /\ sorter = NoSorter /\ use_label = "intersect"
    /\ loaded = IdleLoaded

NoLists == [spikes_list |-> <<>>, metrics_list |-> <<>>, labels |-> <<>>]

IdleConcat == [status |-> "pending", spikes |-> <<>>, metrics |-> <<>>, n_calls |-> 0]

ConcatIdle ==
    /\ spikes_list = <<>> /\ metrics_list = <<>> /\ probe_labels = <<>>
    /\ in_lists = NoLists
    /\ concat = IdleConcat

IdleEta == [status |-> "pending", spike_triggered |-> <<>>, mean |-> <<>>]

EtaIdle ==
    /\ tvec_x = <<>> /\ event_ts = <<>> /\ pre_win = 0 /\ post_win = 0
    /\ eta = IdleEta

IdleRaster == [status |-> "pending", raster |-> <<>>, cell_id |-> <<>>, bins |-> <<>>]

BinIdle ==
    /\ spike_ts = <<>> /\ spike_idx = <<>>
    /\ max_time = 0 /\ binsize = 1 /\ start_time = 0
    /\ raster = IdleRaster

-----------------------------------------------------------------------------
(* Spec: the edge detector, called once on a signal and a threshold        *)

Signals == SeqsUpTo(Vals, MaxLen) \cup {ScenarioSignal}

Init ==
    /\ x \in Signals
    /\ thresh \in Threshs
    /\ edges = Pending
    /\ TvecIdle
    /\ TableIdle
    /\ RemapIdle
    /\ LabelIdle
    /\ LoadIdle /\ ConcatIdle /\ EtaIdle /\ BinIdle

CallBinaryOnsets ==
    /\ edges.status = "pending"
    /\ edges' = WithFn(binary_onsets(x, thresh), "data")
    /\ UNCHANGED <<x, thresh, tvecVars, tableVars, remapVars, labelVars,
                 loadVars, concatVars, etaVars, binVars>>

CallProcBinaryOnsets ==
    /\ edges.status = "pending"
    /\ edges' = WithFn(proc_binary_onsets(x, thresh), "proc")
    /\ UNCHANGED <<x, thresh, tvecVars, tableVars, remapVars, labelVars,
                 loadVars, concatVars, etaVars, binVars>>

Next == CallBinaryOnsets \/ CallProcBinaryOnsets

Spec == Init /\ [][Next]_vars

-----------------------------------------------------------------------------
(* SpecTvec: get_tvec, called once on a sync channel, reference            *)
(* timestamps and a sample rate                                            *)

InitTvec ==
    /\ x_sync \in SeqsUpTo(SyncVals, MaxSyncLen)
    /\ sync_timestamps \in SeqsUpTo(TimeVals, MaxTs)
    /\ sr \in 1..MaxSr
    /\ tvec = IdleTvec
    /\ EdgeIdle
    /\ TableIdle
    /\ RemapIdle
    /\ LabelIdle
    /\ LoadIdle /\ ConcatIdle /\ EtaIdle /\ BinIdle

CallGetTvec ==
    /\ tvec.status = "pending"
    /\ tvec' = get_tvec(x_sync, sync_timestamps, sr)
    /\ UNCHANGED <<x_sync, sync_timestamps, sr, edgeVars, tableVars, remapVars, labelVars,
                 loadVars, concatVars, etaVars, binVars>>

NextTvec == CallGetTvec

SpecTvec == InitTvec /\ [][NextTvec]_vars

-----------------------------------------------------------------------------
(* The tables get_concatenated_spikes builds: every cluster of the metrics *)
(* table has its spikes in the spike table, cell_id is the cluster id, and  *)
(* depth is the cluster's depth.                                           *)

MaxClusters == 2        \* most clusters of a table that is filtered
MaxResortClusters == 3  \* most clusters of a table that is re-ranked

SpikeCounts == {99, 100, 101}   \* spikes of a cluster: around the minimum
Depths == {10, 20, 30}          \* depths of a cluster (microns)
FewSpikes == {1, 2}             \* spikes of a cluster of a table that is re-ranked

\* isi_viol, amplitude_cutoff, presence_ratio: each just passes or just fails
MetricProfiles == {199, 200} \X {9, 10} \X {90, 91}

spike_table(n, depth, count) ==
    [c \in 1..n |-> [cluster_id |-> c, cell_id |-> c,
                     depth |-> depth[c], n_rows |-> count[c]]]

metrics_table(n, depth, profile) ==
    [c \in 1..n |-> [cluster_id |-> c, depth |-> depth[c],
                     isi_viol |-> profile[c][1],
                     amplitude_cutoff |-> profile[c][2],
                     presence_ratio |-> profile[c][3]]]

Called(name) == calls' = <<calls[2], name>>

LastCall == calls[2]
PrevCall == calls[1]

-----------------------------------------------------------------------------
(* SpecResort: clusters are removed from a spike table and its cell_id is  *)
(* re-ranked                                                               *)

InitResort ==
    /\ \E n \in 1..MaxResortClusters :
         \E depth \in [1..n -> Depths], count \in [1..n -> FewSpikes] :
            spikes = spike_table(n, depth, count)
    /\ metrics = <<>>
    /\ in_spikes = <<>> /\ in_metrics = <<>>
    /\ calls = NoCalls
    /\ EdgeIdle
    /\ TvecIdle
    /\ RemapIdle
    /\ LabelIdle
    /\ LoadIdle /\ ConcatIdle /\ EtaIdle /\ BinIdle

\* spikes = spikes[spikes['cluster_id'].isin(keep)], keep a non-empty strict
\* subset of the clusters
RemoveClusters ==
    /\ \E keep \in SUBSET cluster_ids(spikes) :
          /\ keep # {}
          /\ keep # cluster_ids(spikes)
          /\ spikes' = isin(spikes, keep)
    /\ in_spikes' = spikes
    /\ Called("remove_clusters")
    /\ UNCHANGED <<metrics, in_metrics, edgeVars, tvecVars, remapVars, labelVars,
                 loadVars, concatVars, etaVars, binVars>>

ResortByDepth ==
    /\ spikes' = resort_by_depth(spikes)
    /\ in_spikes' = spikes
    /\ Called("resort_by_depth")
    /\ UNCHANGED <<metrics, in_metrics, edgeVars, tvecVars, remapVars, labelVars,
                 loadVars, concatVars, etaVars, binVars>>

NextResort == RemoveClusters \/ ResortByDepth

SpecResort == InitResort /\ [][NextResort]_vars

-----------------------------------------------------------------------------
(* SpecFilter: the quality filters, called on the tables in any order      *)

Expressions == {"isi_viol<2 ", "amplitude_cutoff<0.1", "presence_ratio>0.9"}

FilterDepth(c) == 100 - 10 * c

InitFilter ==
    /\ \E n \in 1..MaxClusters :
         \E count \in [1..n -> SpikeCounts], profile \in [1..n -> MetricProfiles] :
            /\ spikes = spike_table(n, [c \in 1..n |-> FilterDepth(c)], count)
            /\ metrics = metrics_table(n, [c \in 1..n |-> FilterDepth(c)], profile)
    /\ in_spikes = <<>> /\ in_metrics = <<>>
    /\ calls = NoCalls
    /\ EdgeIdle
    /\ TvecIdle
    /\ RemapIdle
    /\ LabelIdle
    /\ LoadIdle /\ ConcatIdle /\ EtaIdle /\ BinIdle

FilterByMetric ==
    /\ \E expression \in Expressions :
         LET r == filter_by_metric(spikes, metrics, expression)
         IN  spikes' = r.spikes /\ metrics' = r.metrics
    /\ in_spikes' = spikes /\ in_metrics' = metrics
    /\ Called("filter_by_metric")
    /\ UNCHANGED <<edgeVars, tvecVars, remapVars, labelVars,
                 loadVars, concatVars, etaVars, binVars>>

\* spikes = filter_by_spikerate(spikes, metrics, 100): the caller's metrics stay
FilterBySpikerate ==
    /\ spikes' = filter_by_spikerate(spikes, metrics, MinSpikes)
    /\ metrics' = metrics
    /\ in_spikes' = spikes /\ in_metrics' = metrics
    /\ Called("filter_by_spikerate")
    /\ UNCHANGED <<edgeVars, tvecVars, remapVars, labelVars,
                 loadVars, concatVars, etaVars, binVars>>

FilterDefaultMetrics ==
    /\ LET r == filter_default_metrics(spikes, metrics)
       IN  spikes' = r.spikes /\ metrics' = r.metrics
    /\ in_spikes' = spikes /\ in_metrics' = metrics
    /\ Called("filter_default_metrics")
    /\ UNCHANGED <<edgeVars, tvecVars, remapVars, labelVars,
                 loadVars, concatVars, etaVars, binVars>>

\* load_filtered_spikes, lines 368-370, on the tables line 367 has loaded
LoadFilteredSpikes ==
    /\ calls = NoCalls
    /\ \E use_filters \in BOOLEAN :
         LET r == IF use_filters THEN filter_default_metrics(spikes, metrics)
                  ELSE [spikes |-> spikes, metrics |-> metrics]
         IN  spikes' = resort_by_depth(r.spikes) /\ metrics' = r.metrics
    /\ in_spikes' = spikes /\ in_metrics' = metrics
    /\ Called("load_filtered_spikes")
    /\ UNCHANGED <<edgeVars, tvecVars, remapVars, labelVars,
                 loadVars, concatVars, etaVars, binVars>>

NextFilter ==
    FilterByMetric \/ FilterBySpikerate \/ FilterDefaultMetrics \/ LoadFilteredSpikes

SpecFilter == InitFilter /\ [][NextFilter]_vars

-----------------------------------------------------------------------------
(* SpecRemap: remap_time_basis, called once; x_t is strictly increasing    *)

MaxRemapLen == 3     \* longest signal given to remap_time_basis
MaxTargetLen == 1    \* longest target basis other than x_t itself

RemapTimes == {0, 1, 2, 3}

InitRemap ==
    /\ x \in SeqsUpTo(Vals, MaxRemapLen)
    /\ x_t \in {s \in SeqsUpTo(RemapTimes, MaxRemapLen) : StrictlyIncreasing(s)}
    /\ y_t \in {x_t} \cup SeqsUpTo(RemapTimes, MaxTargetLen)
    /\ x_mapped = IdleRemap
    /\ thresh = 0 /\ edges = Pending
    /\ TvecIdle
    /\ TableIdle
    /\ LabelIdle
    /\ LoadIdle /\ ConcatIdle /\ EtaIdle /\ BinIdle

CallRemapTimeBasis ==
    /\ x_mapped.status = "pending"
    /\ x_mapped' = remap_time_basis(x, x_t, y_t)
    /\ UNCHANGED <<x_t, y_t, edgeVars, tvecVars, tableVars, labelVars,
                 loadVars, concatVars, etaVars, binVars>>

NextRemap == CallRemapTimeBasis

SpecRemap == InitRemap /\ [][NextRemap]_vars

-----------------------------------------------------------------------------
(* SpecLabel: label_time_vector, called once on a time vector and parallel *)
(* lists of interval starts, ends and labels                               *)

MaxTimes == 2        \* longest time vector given to label_time_vector
MaxIntervals == 2    \* most intervals given to label_time_vector

LabelTimes == {0, 1, 2}
LabelNames == {"a", "b"}

ScenarioT == <<5, 10, 15>>
ScenarioStarts == <<0, 10>>
ScenarioEnds == <<10, 20>>
ScenarioLabels == <<"a", "b">>

InitLabel ==
    /\ \/ /\ t \in SeqsUpTo(LabelTimes, MaxTimes)
          /\ \E n \in 0..MaxIntervals :
                /\ starts \in [1..n -> LabelTimes]
                /\ ends \in [1..n -> LabelTimes]
                /\ labels \in [1..n -> LabelNames]
       \/ /\ t = ScenarioT
          /\ starts = ScenarioStarts
          /\ ends = ScenarioEnds
          /\ labels = ScenarioLabels
    /\ df = IdleDf
    /\ EdgeIdle
    /\ TvecIdle
    /\ TableIdle
    /\ RemapIdle
    /\ LoadIdle /\ ConcatIdle /\ EtaIdle /\ BinIdle

CallLabelTimeVector ==
    /\ df.status = "pending"
    /\ df' = label_time_vector(t, starts, ends, labels)
    /\ UNCHANGED <<t, starts, ends, labels, edgeVars, tvecVars, tableVars, remapVars,
                 loadVars, concatVars, etaVars, binVars>>

NextLabel == CallLabelTimeVector

SpecLabel == InitLabel /\ [][NextLabel]_vars


-----------------------------------------------------------------------------
(* get_concatenated_spikes                                                 *)
(*                                                                         *)
(* The sorter directory is the set of its files (the raw recording         *)
(* "../ap.bin" sits beside it); sorter holds what the files say: n         *)
(* clusters 1..n, one spike each, with their two labels.                   *)

SorterFiles ==
    {"spike_times_sec.npy", "spike_times.npy", "../ap.bin", "spike_clusters.npy",
     "metrics.csv", "waveform_metrics.csv", "channel_positions.npy",
     "cluster_group.tsv", "cluster_KSLabel.tsv"}

SorterDepth(c) == 100 - 10 * c

\* lines 255-259: ts, cell_id = the cluster of the spike, cluster_id and depth
\* by the left merge on the metrics
loaded_spikes(srt) ==
    spike_table(srt.n, [c \in 1..srt.n |-> SorterDepth(c)], [c \in 1..srt.n |-> 1])

\* lines 245-253: the metrics file with the depth of the peak channel
loaded_metrics(srt) ==
    metrics_table(srt.n, [c \in 1..srt.n |-> SorterDepth(c)],
                  [c \in 1..srt.n |-> <<199, 9, 91>>])

\* grp.query('group=="good"')['cluster_id']
good_by(srt, column) ==
    {c \in 1..srt.n : IF column = "group" THEN srt.group[c] = "good"
                      ELSE srt.KSLabel[c] = "good"}

LoadRaised(e, written) ==
    [status |-> e, spikes |-> <<>>, metrics |-> <<>>, written |-> written]

\* lines 232-242: the seconds-converted spike times, read or made and saved
convert_spike_times(dir) ==
    IF "spike_times_sec.npy" \in dir THEN [status |-> "ok", written |-> {}]
    ELSE IF "spike_times.npy" \notin dir
         THEN [status |-> "FileNotFoundError", written |-> {}]
    ELSE IF "../ap.bin" \notin dir                  \* glob(...)[0] of no match
         THEN [status |-> "IndexError", written |-> {}]
    ELSE [status |-> "ok", written |-> {"spike_times_sec.npy"}]

\* lines 261-288: the cluster-inclusion policy
apply_policy(dir, srt, label, sp, mt, written) ==
    IF label = "default" THEN
        IF "cluster_group.tsv" \notin dir THEN LoadRaised("FileNotFoundError", written)
        ELSE [status |-> "ok", spikes |-> isin(sp, good_by(srt, "group")),
              metrics |-> mt, written |-> written]
    ELSE IF label = "ks" THEN
        IF "cluster_KSLabel.tsv" \notin dir THEN LoadRaised("FileNotFoundError", written)
        ELSE [status |-> "ok", spikes |-> isin(sp, good_by(srt, "KSLabel")),
              metrics |-> mt, written |-> written]
    ELSE IF label = "intersect" THEN
        IF "cluster_group.tsv" \notin dir \/ "cluster_KSLabel.tsv" \notin dir
        THEN LoadRaised("FileNotFoundError", written)
        ELSE LET clu_list == good_by(srt, "group") \cap good_by(srt, "KSLabel")
             IN  [status |-> "ok", spikes |-> isin(sp, clu_list),
                  metrics |-> isin(mt, clu_list), written |-> written]
    ELSE LoadRaised("NotImplementedError", written)

\* data.get_concatenated_spikes(ks_dir, use_label)
get_concatenated_spikes(dir, srt, label) ==
    LET conv == convert_spike_times(dir)
    IN  IF conv.status # "ok" THEN LoadRaised(conv.status, conv.written)
        ELSE IF "spike_clusters.npy" \notin dir
             THEN LoadRaised("FileNotFoundError", conv.written)
        ELSE IF "metrics.csv" \notin dir /\ "waveform_metrics.csv" \notin dir
             THEN LoadRaised("FileNotFoundError", conv.written)
        ELSE IF "channel_positions.npy" \notin dir
             THEN LoadRaised("FileNotFoundError", conv.written)
        ELSE apply_policy(dir, srt, label, loaded_spikes(srt), loaded_metrics(srt),
                          conv.written)

-----------------------------------------------------------------------------
(* SpecLoad: get_concatenated_spikes, called once on a sorter directory    *)

MaxSorterClusters == 2   \* most clusters of a sorter directory

ClusterLabels == {"good", "mua"}
PolicyNames == {"default", "ks", "intersect", "phy"}

InitLoad ==
    /\ ks_dir \in SUBSET SorterFiles
    /\ \E n \in 0..MaxSorterClusters :
          sorter \in [n : {n}, group : [1..n -> ClusterLabels],
                      KSLabel : [1..n -> ClusterLabels]]
    /\ use_label \in PolicyNames
    /\ loaded = IdleLoaded
    /\ EdgeIdle /\ TvecIdle /\ TableIdle /\ RemapIdle /\ LabelIdle
    /\ ConcatIdle /\ EtaIdle /\ BinIdle

CallGetConcatenatedSpikes ==
    /\ loaded.status = "pending"
    /\ loaded' = get_concatenated_spikes(ks_dir, sorter, use_label)
    /\ ks_dir' = ks_dir \cup loaded'.written
    /\ UNCHANGED <<sorter, use_label, edgeVars, tvecVars, tableVars, remapVars,
                   labelVars, concatVars, etaVars, binVars>>

NextLoad == CallGetConcatenatedSpikes

SpecLoad == InitLoad /\ [][NextLoad]_vars


-----------------------------------------------------------------------------
(* concatenate_probes                                                      *)
(*                                                                         *)
(* The tables of the lists are objects the caller holds, so each is a      *)
(* record [cols, rows]: the set of its column names and its rows, a row a  *)
(* record over the columns (a spike row group also carries n_rows).  A     *)
(* probe label is the number of the probe ('imec0' < 'imec1' as 0 < 1), a  *)
(* uuid a number never handed out before.                                  *)

\* df[col] = vals, in place
set_column(tbl, col, vals) ==
    [cols |-> tbl.cols \cup {col},
     rows |-> [i \in 1..Len(tbl.rows) |->
                 [f \in DOMAIN tbl.rows[i] \cup {col} |->
                     IF f = col THEN vals[i] ELSE tbl.rows[i][f]]]]

\* [uuid.uuid4() for _ in range(len(metrics_list[ii].index))]
fresh_uuids(call, ii, n, per_probe, n_probes) ==
    [j \in 1..n |-> (call * n_probes + (ii - 1)) * per_probe + j]

\* spikes_list[ii].merge(metrics_list[ii][['cluster_id', 'uuid']], on='cluster_id'):
\* a uuid column on both sides comes out as uuid_x and uuid_y
merge_uuid(sp, mt) ==
    LET hit(r) == \E j \in 1..Len(mt.rows) : mt.rows[j].cluster_id = r.cluster_id
        kept == SelectSeq(sp.rows, hit)
        right(r) == mt.rows[CHOOSE j \in 1..Len(mt.rows) :
                                mt.rows[j].cluster_id = r.cluster_id].uuid
    IN  IF "uuid" \in sp.cols
        THEN [cols |-> (sp.cols \ {"uuid"}) \cup {"uuid_x", "uuid_y"},
              rows |-> [i \in 1..Len(kept) |->
                         [f \in (DOMAIN kept[i] \ {"uuid"}) \cup {"uuid_x", "uuid_y"} |->
                             IF f = "uuid_x" THEN kept[i].uuid
                             ELSE IF f = "uuid_y" THEN right(kept[i])
                             ELSE kept[i][f]]]]
        ELSE [cols |-> sp.cols \cup {"uuid"},
              rows |-> [i \in 1..Len(kept) |->
                         [f \in DOMAIN kept[i] \cup {"uuid"} |->
                             IF f = "uuid" THEN right(kept[i]) ELSE kept[i][f]]]]

\* lines 383-387 at one ii
tag_metrics(mt, label, uuids) ==
    set_column(set_column(mt, "probe", [j \in 1..Len(mt.rows) |-> label]), "uuid", uuids)

tag_spikes(sp, label, tagged_mt) ==
    merge_uuid(set_column(sp, "probe", [j \in 1..Len(sp.rows) |-> label]), tagged_mt)

\* pd.concat(tables).reset_index(drop=True)
RECURSIVE pd_concat(_)
pd_concat(tables) ==
    IF tables = <<>> THEN [cols |-> {}, rows |-> <<>>]
    ELSE LET rest == pd_concat(Tail(tables))
         IN  [cols |-> Head(tables).cols \cup rest.cols,
              rows |-> Head(tables).rows \o rest.rows]

\* the order of sort_values(['probe', 'depth']) that takes depth alone
depth_leq(a, b) == a.depth <= b.depth

\* the order of sort_values(['probe', 'depth'])
probe_depth_leq(a, b) ==
    \/ a.probe < b.probe
    \/ a.probe = b.probe /\ a.depth <= b.depth

RECURSIVE insert_by_probe_depth(_, _)
insert_by_probe_depth(sorted, r) ==
    IF sorted = <<>> THEN <<r>>
    ELSE IF probe_depth_leq(Head(sorted), r)
         THEN <<Head(sorted)>> \o insert_by_probe_depth(Tail(sorted), r)
         ELSE <<r>> \o sorted

RECURSIVE sort_values_probe_depth(_)
sort_values_probe_depth(rows) ==
    IF rows = <<>> THEN <<>>
    ELSE insert_by_probe_depth(sort_values_probe_depth(SubSeq(rows, 1, Len(rows) - 1)),
                               rows[Len(rows)])

\* .reset_index(drop=True).reset_index().rename(columns={'index': 'cell_id'})
reset_index_to_cell_id(mt) ==
    set_column(mt, "cell_id", [i \in 1..Len(mt.rows) |-> i - 1])

\* spikes.drop('cell_id', axis=1).merge(metrics[['uuid', 'cell_id']], on='uuid');
\* the last sort by ts moves rows, which the row groups do not order
merge_on_uuid(sp, mt) ==
    LET hit(r) == \E j \in 1..Len(mt.rows) : mt.rows[j].uuid = r.uuid
        kept == SelectSeq(sp.rows, hit)
        cell(r) == mt.rows[CHOOSE j \in 1..Len(mt.rows) : mt.rows[j].uuid = r.uuid].cell_id
    IN  [cols |-> sp.cols \cup {"cell_id"},
         rows |-> [i \in 1..Len(kept) |->
                     [f \in DOMAIN kept[i] \cup {"cell_id"} |->
                         IF f = "cell_id" THEN cell(kept[i]) ELSE kept[i][f]]]]

\* lines 383-387: the lists after the loop
tagged_metrics_list(mts, lbls, call, per_probe) ==
    [ii \in 1..Len(mts) |->
        tag_metrics(mts[ii], lbls[ii],
                    fresh_uuids(call, ii, Len(mts[ii].rows), per_probe, Len(mts)))]

tagged_spikes_list(sps, tagged_mts, lbls) ==
    [ii \in 1..Len(sps) |-> tag_spikes(sps[ii], lbls[ii], tagged_mts[ii])]

\* data.concatenate_probes(spikes_list, metrics_list, labels): what it returns
\* and the lists it leaves behind
concatenate_probes(sps, mts, lbls, call, per_probe) ==
    LET mts2 == tagged_metrics_list(mts, lbls, call, per_probe)
        sps2 == tagged_spikes_list(sps, mts2, lbls)
        sp   == pd_concat(sps2)
        mt0  == pd_concat(mts2)
        mt   == reset_index_to_cell_id([cols |-> mt0.cols,
                                        rows |-> sort_values_probe_depth(mt0.rows)])
    IN  IF "uuid" \notin sp.cols                    \* merge(on='uuid')
        THEN [status |-> "KeyError", spikes |-> <<>>, metrics |-> <<>>,
              spikes_list |-> sps2, metrics_list |-> mts2]
        ELSE [status |-> "ok", spikes |-> merge_on_uuid(sp, mt), metrics |-> mt,
              spikes_list |-> sps2, metrics_list |-> mts2]

-----------------------------------------------------------------------------
(* SpecConcat: concatenate_probes, called on the same lists up to twice    *)

MaxProbes == 2          \* most probes of a session
MaxProbeClusters == 2   \* most clusters of one probe

ProbeDepths == {10, 20}
\* the labels of n probes: in list order, in reverse order, or all the same
LabelOrders(n) ==
    {[ii \in 1..n |-> ii - 1], [ii \in 1..n |-> n - ii], [ii \in 1..n |-> 0]}

SpikeCols == {"ts", "cell_id", "cluster_id", "depth"}
MetricsCols == {"cluster_id", "depth"}

\* the tables of one probe as get_concatenated_spikes builds them, one spike
\* per cluster
probe_spikes(n, depth) ==
    [cols |-> SpikeCols, rows |-> spike_table(n, depth, [c \in 1..n |-> 1])]

probe_metrics(n, depth) ==
    [cols |-> MetricsCols,
     rows |-> [c \in 1..n |-> [cluster_id |-> c, depth |-> depth[c]]]]

ProbeShapes ==
    UNION {[n : {n}, depth : [1..n -> ProbeDepths]] : n \in 1..MaxProbeClusters}

InitConcat ==
    /\ \E n_probes \in 1..MaxProbes :
         \E shape \in [1..n_probes -> ProbeShapes] :
            /\ spikes_list = [ii \in 1..n_probes |->
                                 probe_spikes(shape[ii].n, shape[ii].depth)]
            /\ metrics_list = [ii \in 1..n_probes |->
                                 probe_metrics(shape[ii].n, shape[ii].depth)]
            /\ probe_labels \in LabelOrders(n_probes)
    /\ in_lists = NoLists
    /\ concat = IdleConcat
    /\ EdgeIdle /\ TvecIdle /\ TableIdle /\ RemapIdle /\ LabelIdle
    /\ LoadIdle /\ EtaIdle /\ BinIdle

CallConcatenateProbes ==
    /\ concat.n_calls < 2
    /\ LET r == concatenate_probes(spikes_list, metrics_list, probe_labels,
                                   concat.n_calls, MaxProbeClusters)
       IN  /\ concat' = [status |-> r.status, spikes |-> r.spikes,
                         metrics |-> r.metrics, n_calls |-> concat.n_calls + 1]
           /\ spikes_list' = r.spikes_list
           /\ metrics_list' = r.metrics_list
    /\ in_lists' = [spikes_list |-> spikes_list, metrics_list |-> metrics_list,
                    labels |-> probe_labels]
    /\ UNCHANGED <<probe_labels, edgeVars, tvecVars, tableVars, remapVars,
                   labelVars, loadVars, etaVars, binVars>>

NextConcat == CallConcatenateProbes

SpecConcat == InitConcat /\ [][NextConcat]_vars


-----------------------------------------------------------------------------
(* get_eta                                                                 *)
(*                                                                         *)
(* Times and windows are whole numbers of a common unit and the time       *)
(* vector is uniform; x holds no NaN.  An average is the exact fraction    *)
(* [num, den]; over no event it is 0/0, numpy's nan.  The sem, std, lb, ub *)
(* and t entries of the result need roots and are not represented.         *)

NoneWin == -1    \* post_win=None

\* (samp-win_samps_pre)<0
off_start(samp, win_samps_pre) == samp - win_samps_pre < 0

\* the end test taken as >=
off_end_inclusive(samp, win_samps_post, n) == samp + win_samps_post >= n

\* (samp+win_samps_post)>len(x)
off_end(samp, win_samps_post, n) == samp + win_samps_post > n

\* x[lo:hi] for 0 <= lo <= hi <= len(x)
slice(a, lo, hi) == [w \in 1..(hi - lo) |-> a[lo + w]]

\* np.zeros([win, n_events]), then the loop of lines 164-169: one column an event
snippets(xs, samps, win_samps_pre, win_samps_post) ==
    [ii \in 1..Len(samps) |->
        IF off_start(samps[ii], win_samps_pre) THEN
            [w \in 1..(win_samps_pre + win_samps_post) |-> 0]
        ELSE IF off_end(samps[ii], win_samps_post, Len(xs)) THEN
            [w \in 1..(win_samps_pre + win_samps_post) |-> 0]
        ELSE slice(xs, samps[ii] - win_samps_pre, samps[ii] + win_samps_post)]

\* np.nanmean(spike_triggered, 1)
nanmean_rows(cols, win) ==
    [w \in 1..win |->
        [num |-> sum_seq([ii \in 1..Len(cols) |-> cols[ii][w]]), den |-> Len(cols)]]

EtaRaised(e) == [status |-> e, spike_triggered |-> <<>>, mean |-> <<>>]

\* proc.get_eta(x, tvec, ts, pre_win, post_win)
get_eta(xs, tv, ts, pre, post) ==
    IF Len(tv) # Len(xs) THEN EtaRaised("AssertionError")
    ELSE IF Len(tv) < 2 THEN EtaRaised("IndexError")
    ELSE LET post2 == IF post = NoneWin THEN pre ELSE post
             dt == tv[2] - tv[1]
             samps == searchsorted(tv, ts)
             win_samps_pre == pre \div dt
             win_samps_post == post2 \div dt
             cols == snippets(xs, samps, win_samps_pre, win_samps_post)
         IN  [status |-> "ok", spike_triggered |-> cols,
              mean |-> nanmean_rows(cols, win_samps_pre + win_samps_post)]

-----------------------------------------------------------------------------
(* SpecEta: get_eta, called once on a signal with a uniform time vector    *)

MaxEtaLen == 3    \* most samples of x
MaxEvents == 2    \* most events
MaxWin == 2       \* longest window before or after an event

EtaVals == {1, 2}
EtaSteps == {1, 2}                 \* dt
EventTimes == 0..(MaxEtaLen + 1)

uniform_tvec(n, dt) == [i \in 1..n |-> (i - 1) * dt]

InitEta ==
    /\ x \in SeqsUpTo(EtaVals, MaxEtaLen)
    /\ \E dt \in EtaSteps, n \in {Len(x), Len(x) + 1} : tvec_x = uniform_tvec(n, dt)
    /\ event_ts \in SeqsUpTo(EventTimes, MaxEvents)
    /\ pre_win \in 0..MaxWin
    /\ post_win \in (0..MaxWin) \cup {NoneWin}
    /\ eta = IdleEta
    /\ thresh = 0 /\ edges = Pending
    /\ TvecIdle /\ TableIdle /\ RemapIdle /\ LabelIdle
    /\ LoadIdle /\ ConcatIdle /\ BinIdle

CallGetEta ==
    /\ eta.status = "pending"
    /\ eta' = get_eta(x, tvec_x, event_ts, pre_win, post_win)
    /\ UNCHANGED <<x, thresh, edges, tvec_x, event_ts, pre_win, post_win, tvecVars,
                   tableVars, remapVars, labelVars, loadVars, concatVars, binVars>>

NextEta == CallGetEta

SpecEta == InitEta /\ [][NextEta]_vars


-----------------------------------------------------------------------------
(* bin_trains                                                              *)
(*                                                                         *)
(* Times and the bin width are whole numbers of a common unit.  Row c + 1  *)
(* of the raster is cell c.  An element np.empty left unwritten holds      *)
(* whatever the memory held: any value.                                    *)

NoneTime == -1    \* max_time=None

\* np.max(a), a not empty
np_max(a) == CHOOSE m \in {a[i] : i \in 1..Len(a)} : \A j \in 1..Len(a) : a[j] <= m

\* np.arange(start, stop, step), step > 0
arange(start, stop, step) ==
    IF stop <= start THEN <<>>
    ELSE [k \in 1..(((stop - start - 1) \div step) + 1) |-> start + (k - 1) * step]

\* ts > start_time, the mask of lines 58-59
after_start(tm, start) == tm > start

\* lines 58-62: the positions of the spikes kept
kept_spikes(ts, start, stop) ==
    {i \in 1..Len(ts) : after_start(ts[i], start) /\ ts[i] < stop}

\* np.histogram(cell_ts, bins)[0] at bin k of edges b, Len(b) >= 2: half-open
\* bins, the last one closed
histogram_at(ts, members, b, k) ==
    Cardinality({i \in members :
                    /\ b[k] <= ts[i]
                    /\ IF k = Len(b) - 1 THEN ts[i] <= b[k + 1] ELSE ts[i] < b[k + 1]})

RasterRaised(e) == [status |-> e, raster |-> <<>>, cell_id |-> <<>>, bins |-> <<>>]

\* proc.bin_trains(ts, idx, max_time, binsize, start_time); garbage is what
\* np.empty left in the last column
bin_trains(ts, idx, stop, step, start, garbage) ==
    IF Len(ts) = 0 THEN RasterRaised("ValueError")       \* np.max of no element
    ELSE LET stop2 == IF stop = NoneTime THEN np_max(ts) ELSE stop
             n_neurons == np_max(idx) + 1
             b == arange(start, stop2, step)
             kept == kept_spikes(ts, start, stop2)
         IN  [status |-> "ok",
              raster |-> [c \in 1..n_neurons |->
                            [k \in 1..Len(b) |->
                                IF k = Len(b) THEN garbage
                                ELSE histogram_at(ts, {i \in kept : idx[i] = c - 1}, b, k)]],
              cell_id |-> [c \in 1..n_neurons |-> c - 1],
              bins |-> b]

-----------------------------------------------------------------------------
(* SpecBin: bin_trains, called once; the range holds at least two bin      *)
(* edges                                                                   *)

MaxSpikes == 2     \* most spikes
MaxBinTime == 4    \* latest spike time

BinCells == {0, 1}
SpikeTimes == 0..MaxBinTime
StartTimes == {0, 1}
BinSizes == {1, 2}
GarbageVals == {0, 7}

InitBin ==
    /\ \E n \in 0..MaxSpikes :
          /\ spike_ts \in [1..n -> SpikeTimes]
          /\ spike_idx \in [1..n -> BinCells]
    /\ start_time \in StartTimes
    /\ binsize \in BinSizes
    /\ max_time \in (1..(MaxBinTime + 1)) \cup {NoneTime}
    /\ IF Len(spike_ts) = 0 THEN TRUE
       ELSE (IF max_time = NoneTime THEN np_max(spike_ts) ELSE max_time)
                > start_time + binsize
    /\ raster = IdleRaster
    /\ EdgeIdle /\ TvecIdle /\ TableIdle /\ RemapIdle /\ LabelIdle
    /\ LoadIdle /\ ConcatIdle /\ EtaIdle

CallBinTrains ==
    /\ raster.status = "pending"
    /\ \E garbage \in GarbageVals :
          raster' = bin_trains(spike_ts, spike_idx, max_time, binsize, start_time, garbage)
    /\ UNCHANGED <<spike_ts, spike_idx, max_time, binsize, start_time, edgeVars,
                   tvecVars, tableVars, remapVars, labelVars, loadVars, concatVars,
                   etaVars>>

NextBin == CallBinTrains

SpecBin == InitBin /\ [][NextBin]_vars

-----------------------------------------------------------------------------
(* C1: for every non-empty signal and every threshold, binary_onsets       *)
(* either raises or returns onsets and offsets of equal length with        *)
(* offsets[i] > onsets[i] for every i.                                     *)
C1_EqualLengthOrdered ==
    (Len(x) >= 1 /\ edges.status # "pending") =>
        \/ edges.status = "ValueError"
        \/ /\ edges.status = "ok"
           /\ Len(edges.ons) = Len(edges.offs)
           /\ \A i \in 1..Len(edges.ons) : edges.offs[i] > edges.ons[i]

\* a signal that starts above threshold, ends below it and has a later pulse
C1_Witness ==
    /\ edges.status = "ok"
    /\ Len(x) >= 1
    /\ x[1] > thresh
    /\ ~(x[Len(x)] > thresh)
    /\ Len(edges.ons) >= 1

(* C2: the onsets are exactly the indices i with x[i] <= thresh < x[i+1],  *)
(* the offsets exactly the indices i with x[i] > thresh >= x[i+1], less    *)
(* the first offset when the signal starts above threshold and the last    *)
(* onset when it ends above threshold; [0,0,2,2,0,0,2,2,0] with threshold  *)
(* 1 gives onsets [1,5] and offsets [3,7].                                 *)
Rising(sig, th) ==
    {i \in 0..(Len(sig) - 2) : sig[i + 1] <= th /\ sig[i + 2] > th}

Falling(sig, th) ==
    {i \in 0..(Len(sig) - 2) : sig[i + 1] > th /\ sig[i + 2] <= th}

SetMax(S) == CHOOSE m \in S : \A k \in S : k <= m
SetMin(S) == CHOOSE m \in S : \A k \in S : m <= k

Elems(s) == {s[i] : i \in 1..Len(s)}

ExpectedOnsets(sig, th) ==
    IF sig[Len(sig)] > th /\ Rising(sig, th) # {}
    THEN Rising(sig, th) \ {SetMax(Rising(sig, th))}
    ELSE Rising(sig, th)

ExpectedOffsets(sig, th) ==
    IF sig[1] > th /\ Falling(sig, th) # {}
    THEN Falling(sig, th) \ {SetMin(Falling(sig, th))}
    ELSE Falling(sig, th)

C2_CrossingIndices ==
    (Len(x) >= 1 /\ edges.status # "pending") =>
        /\ edges.status = "ok"
        /\ StrictlyIncreasing(edges.ons)
        /\ StrictlyIncreasing(edges.offs)
        /\ Elems(edges.ons) = ExpectedOnsets(x, thresh)
        /\ Elems(edges.offs) = ExpectedOffsets(x, thresh)
        /\ (x = ScenarioSignal /\ thresh = 1) =>
               (edges.ons = <<1, 5>> /\ edges.offs = <<3, 7>>)

C2_Witness ==
    /\ x = ScenarioSignal
    /\ thresh = 1
    /\ edges.status = "ok"
    /\ edges.fn = "data"
    /\ edges.ons = <<1, 5>>

(* C3: when the number of detected onsets equals the number of reference   *)
(* timestamps (at least one), the time vector get_tvec returns has, at     *)
(* every detected onset sample onsets[k], exactly sync_timestamps[k].      *)
DetectedOnsets == binary_onsets(x_sync, SyncThresh).ons

C3_OnsetsHitTimestamps ==
    (/\ tvec.status # "pending"
     /\ Len(DetectedOnsets) = Len(sync_timestamps)
     /\ Len(sync_timestamps) >= 1) =>
        /\ tvec.status = "ok"
        /\ \A k \in 1..Len(DetectedOnsets) :
               RatEq(tvec.tvec[DetectedOnsets[k] + 1], Rat(sync_timestamps[k]))

\* two pulses with distinct timestamps, samples before, between and after
C3_Witness ==
    /\ tvec.status = "ok"
    /\ Len(DetectedOnsets) = 2
    /\ DetectedOnsets[1] >= 2
    /\ DetectedOnsets[2] - DetectedOnsets[1] >= 3
    /\ sync_timestamps[1] # sync_timestamps[2]

(* C4: when the reference timestamps are non-decreasing, get_tvec assigns  *)
(* a time to every one of the len(signal) samples and the time vector is   *)
(* non-decreasing over its whole length, segment boundaries included.      *)
NonDecreasing(s) == \A i \in 1..(Len(s) - 1) : s[i] <= s[i + 1]

C4_CompleteNonDecreasing ==
    (tvec.status = "ok" /\ NonDecreasing(sync_timestamps)) =>
        /\ Len(tvec.tvec) = Len(x_sync)
        /\ \A i \in 1..Len(tvec.tvec) : tvec.tvec[i] # Uninit /\ tvec.tvec[i].den > 0
        /\ \A i \in 1..(Len(tvec.tvec) - 1) : RatLeq(tvec.tvec[i], tvec.tvec[i + 1])

\* all three kinds of segment are written and the timestamps rise
C4_Witness ==
    /\ tvec.status = "ok"
    /\ Len(DetectedOnsets) = 2
    /\ DetectedOnsets[1] >= 2
    /\ DetectedOnsets[2] - DetectedOnsets[1] >= 3
    /\ sync_timestamps[1] < sync_timestamps[2]
    /\ sr = 2

(* C5: after removing a non-empty strict subset of the clusters and        *)
(* calling resort_by_depth, the cell_id values are exactly 0..M-1 for the  *)
(* M remaining clusters and follow ascending mean depth: of two remaining  *)
(* clusters the one with the smaller mean depth has the smaller cell_id.   *)
CellIds(sp) == {sp[i].cell_id : i \in 1..Len(sp)}

MeanDepthLess(sp, c1, c2) ==
    LET tot(c) == sum_seq([i \in 1..Len(sp) |->
                     IF sp[i].cluster_id = c THEN sp[i].depth * sp[i].n_rows ELSE 0])
        cnt(c) == sum_seq([i \in 1..Len(sp) |->
                     IF sp[i].cluster_id = c THEN sp[i].n_rows ELSE 0])
    IN  tot(c1) * cnt(c2) < tot(c2) * cnt(c1)

C5_ContiguousByDepth ==
    (LastCall = "resort_by_depth" /\ PrevCall = "remove_clusters") =>
        /\ CellIds(spikes) = 0..(Cardinality(cluster_ids(spikes)) - 1)
        /\ \A i, j \in 1..Len(spikes) :
               MeanDepthLess(spikes, spikes[i].cluster_id, spikes[j].cluster_id)
                   => spikes[i].cell_id < spikes[j].cell_id

(* C7: under filter_default_metrics a cluster's spikes are kept if and     *)
(* only if the cluster has at least 100 spikes and isi-violation rate < 2  *)
(* and amplitude-cutoff < 0.1 and presence-ratio > 0.9.                    *)
HasRow(mt, c) == \E i \in 1..Len(mt) : mt[i].cluster_id = c

RowOf(mt, c) == mt[CHOOSE i \in 1..Len(mt) : mt[i].cluster_id = c]

SpikeTotal(sp, c) ==
    sum_seq([i \in 1..Len(sp) |-> IF sp[i].cluster_id = c THEN sp[i].n_rows ELSE 0])

MeetsPolicy(sp, mt, c) ==
    /\ SpikeTotal(sp, c) >= 100
    /\ HasRow(mt, c)
    /\ RowOf(mt, c).isi_viol < 200
    /\ RowOf(mt, c).amplitude_cutoff < 10
    /\ RowOf(mt, c).presence_ratio > 90

C7_KeptIffPolicy ==
    LastCall = "filter_default_metrics" =>
        \A c \in cluster_ids(in_spikes) \cup cluster_ids(in_metrics) :
            (SpikeTotal(spikes, c) > 0) <=> MeetsPolicy(in_spikes, in_metrics, c)

(* C8: after filter_default_metrics every cluster left in the returned     *)
(* metrics table satisfies every step of the policy, the minimum spike     *)
(* count included, so no metrics row refers to a cluster whose spikes were *)
(* dropped from the spike table.                                           *)
C8_MetricsMatchSpikes ==
    LastCall = "filter_default_metrics" =>
        \A i \in 1..Len(metrics) :
            /\ MeetsPolicy(in_spikes, in_metrics, metrics[i].cluster_id)
            /\ SpikeTotal(spikes, metrics[i].cluster_id) > 0

(* C9: filter_default_metrics is idempotent: applied to the pair it        *)
(* returned, it returns the same spike rows and the same metrics rows.     *)
C9_Idempotent ==
    (PrevCall = "filter_default_metrics" /\ LastCall = "filter_default_metrics") =>
        /\ spikes = in_spikes
        /\ metrics = in_metrics

\* the second of two calls in a row, the first having dropped the spikes of
\* a cluster and kept those of another
C9_Witness ==
    /\ PrevCall = "filter_default_metrics"
    /\ LastCall = "filter_default_metrics"
    /\ Len(spikes) >= 1
    /\ cluster_ids(spikes) # cluster_ids(metrics)

(* C6: for a signal x with a strictly increasing time basis x_t,           *)
(* remap_time_basis(x, x_t, x_t) returns x unchanged: element k of the     *)
(* result is x[k] for every k, k = 0 included.                             *)
C6_RoundTrip ==
    (x_mapped.status # "pending" /\ y_t = x_t /\ Len(x) = Len(x_t)) =>
        /\ x_mapped.status = "ok"
        /\ x_mapped.x_mapped = x

(* C10: label_time_vector labels each sample t with the label of the last  *)
(* interval of the list with start < t <= end, and with 'none' when no     *)
(* interval contains t; starts [0,10], ends [10,20], labels ['a','b'] over *)
(* t = [5,10,15] gives ['a','a','b'].                                      *)
Containing(tv) ==
    {k \in 1..Len(starts) : starts[k] < tv /\ tv <= ends[k]}

ExpectedLabel(tv) ==
    IF Containing(tv) = {} THEN "none" ELSE labels[SetMax(Containing(tv))]

C10_LastIntervalWins ==
    df.status # "pending" =>
        /\ df.status = "ok"
        /\ Len(df.rows) = Len(t)
        /\ \A i \in 1..Len(t) :
               df.rows[i].t = t[i] /\ df.rows[i].label = ExpectedLabel(t[i])
        /\ t = ScenarioT =>
               [i \in 1..Len(df.rows) |-> df.rows[i].label] = <<"a", "a", "b">>

\* a sample on the end of one interval and inside a later, overlapping one
C10_Witness ==
    /\ df.status = "ok"
    /\ Len(starts) = 2
    /\ \E i \in 1..Len(t) :
          /\ t[i] = ends[1]
          /\ Containing(t[i]) = {1, 2}
          /\ labels[1] # labels[2]
          /\ df.rows[i].label = labels[2]

(* C11: when the number of sync-pulse onsets detected in the signal        *)
(* differs from the number of reference timestamps, get_tvec raises the    *)
(* count-mismatch error and produces no time vector; it never goes on to   *)
(* interpolate with a partial pairing.                                     *)
C11_MismatchRaises ==
    (/\ tvec.status # "pending"
     /\ binary_onsets(x_sync, SyncThresh).status = "ok"
     /\ Len(DetectedOnsets) # Len(sync_timestamps)) =>
        /\ tvec.status = "ValueError"
        /\ tvec.tvec = <<>>

\* one pulse detected, two timestamps given: a partial pairing was possible
C11_Witness ==
    /\ tvec.status = "ValueError"
    /\ Len(DetectedOnsets) = 1
    /\ Len(sync_timestamps) = 2

(* C12: for a cluster-inclusion policy name other than 'default', 'ks' or  *)
(* 'intersect', get_concatenated_spikes rejects at once: it raises the     *)
(* unknown-policy error, returns no tables, and when the error is raised   *)
(* nothing has been written to the sorter directory (the seconds-converted *)
(* spike-time cache has not been created).  Stated for a directory that    *)
(* holds every file a load needs.                                          *)
InputFiles == SorterFiles \ {"spike_times_sec.npy"}

C12_RejectsBeforeWriting ==
    (/\ loaded.status # "pending"
     /\ use_label \notin {"default", "ks", "intersect"}
     /\ InputFiles \subseteq ks_dir) =>
        /\ loaded.status = "NotImplementedError"
        /\ loaded.spikes = <<>> /\ loaded.metrics = <<>>
        /\ loaded.written = {}

(* C13: concatenate_probes assigns one contiguous, 0-indexed cell_id       *)
(* ordering by depth across the union of all probes: of any two clusters   *)
(* of the combined table, whatever their probes, the one with the smaller  *)
(* depth has the smaller cell_id, and the cell_id values are 0..total-1.   *)
TotalClusters == sum_seq([ii \in 1..Len(in_lists.metrics_list) |->
                             Len(in_lists.metrics_list[ii].rows)])

ContiguousCellIds(mt) ==
    /\ Len(mt.rows) = TotalClusters
    /\ {mt.rows[i].cell_id : i \in 1..Len(mt.rows)} = 0..(TotalClusters - 1)

C13_ByDepthAcrossProbes ==
    concat.status = "ok" =>
        /\ ContiguousCellIds(concat.metrics)
        /\ \A i, j \in 1..Len(concat.metrics.rows) :
              concat.metrics.rows[i].depth < concat.metrics.rows[j].depth
                 => concat.metrics.rows[i].cell_id < concat.metrics.rows[j].cell_id

(* C13, as the code has it: the cell_id values of the combined metrics     *)
(* table are 0..total-1, one per cluster, in the order of probe label      *)
(* first and depth within a probe label; every spike row carries the       *)
(* cell_id of the metrics row with its uuid.                               *)
C13_ByProbeThenDepth ==
    concat.status = "ok" =>
        /\ ContiguousCellIds(concat.metrics)
        /\ \A i, j \in 1..Len(concat.metrics.rows) :
              LET a == concat.metrics.rows[i]
                  b == concat.metrics.rows[j]
              IN  (a.probe < b.probe \/ (a.probe = b.probe /\ a.depth < b.depth))
                     => a.cell_id < b.cell_id
        /\ \A i \in 1..Len(concat.spikes.rows) :
              \E j \in 1..Len(concat.metrics.rows) :
                 /\ concat.metrics.rows[j].uuid = concat.spikes.rows[i].uuid
                 /\ concat.metrics.rows[j].cell_id = concat.spikes.rows[i].cell_id

\* two probes returned together, a cluster of the later label shallower than
\* one of the earlier label
C13_Witness ==
    /\ concat.status = "ok"
    /\ \E i, j \in 1..Len(concat.metrics.rows) :
          /\ concat.metrics.rows[i].probe < concat.metrics.rows[j].probe
          /\ concat.metrics.rows[i].depth > concat.metrics.rows[j].depth
          /\ concat.metrics.rows[i].cell_id < concat.metrics.rows[j].cell_id

(* C15: table operations do not mutate their inputs: concatenate_probes    *)
(* (as the filters and resort_by_depth) leaves every table and list passed *)
(* to it unchanged, same columns, same rows, same list elements, so a      *)
(* second call on the same inputs succeeds as the first did.               *)
C15_InputsUnchanged ==
    concat.n_calls >= 1 =>
        /\ spikes_list = in_lists.spikes_list
        /\ metrics_list = in_lists.metrics_list
        /\ concat.status = "ok"

(* C14: every filter step re-derives the cell_id depth order: after a call *)
(* to filter_by_metric, filter_by_spikerate or filter_default_metrics that *)
(* removes at least one cluster, the cell_id values of the returned spike  *)
(* table are the contiguous depth ranks 0..M-1 of the M remaining          *)
(* clusters.                                                               *)
FilterCalls == {"filter_by_metric", "filter_by_spikerate", "filter_default_metrics"}

DepthRanked(sp) ==
    /\ CellIds(sp) = 0..(Cardinality(cluster_ids(sp)) - 1)
    /\ \A i, j \in 1..Len(sp) :
          MeanDepthLess(sp, sp[i].cluster_id, sp[j].cluster_id)
             => sp[i].cell_id < sp[j].cell_id

C14_FiltersRederiveCellId ==
    (LastCall \in FilterCalls /\ cluster_ids(spikes) # cluster_ids(in_spikes)) =>
        DepthRanked(spikes)

(* C16: get_eta skips an event exactly when its window of samples          *)
(* [samp - pre, samp + post) runs off either end of x; a skipped event     *)
(* leaves an all-zero column, every other column is the pre + post samples *)
(* of x in the window, and the mean is, sample by sample, the sum of the   *)
(* in-range snippets divided by the number of all events, the skipped      *)
(* ones included.                                                          *)
EventSample(ii) ==
    Cardinality({k \in 1..Len(tvec_x) : tvec_x[k] < event_ts[ii]})

PreSamples == pre_win \div (tvec_x[2] - tvec_x[1])

PostSamples ==
    (IF post_win = NoneWin THEN pre_win ELSE post_win) \div (tvec_x[2] - tvec_x[1])

InRange(ii) ==
    /\ EventSample(ii) - PreSamples >= 0
    /\ EventSample(ii) + PostSamples <= Len(x)

C16_SkippedCountInMean ==
    eta.status = "ok" =>
        /\ Len(eta.spike_triggered) = Len(event_ts)
        /\ \A ii \in 1..Len(event_ts) :
              /\ Len(eta.spike_triggered[ii]) = PreSamples + PostSamples
              /\ \A w \in 1..(PreSamples + PostSamples) :
                    eta.spike_triggered[ii][w] =
                        IF InRange(ii) THEN x[EventSample(ii) - PreSamples + w] ELSE 0
        /\ Len(eta.mean) = PreSamples + PostSamples
        /\ \A w \in 1..(PreSamples + PostSamples) :
              /\ eta.mean[w].den = Len(event_ts)
              /\ eta.mean[w].num =
                    sum_seq([ii \in 1..Len(event_ts) |->
                        IF InRange(ii) THEN x[EventSample(ii) - PreSamples + w] ELSE 0])

\* two events, one skipped and one whose window ends with the last sample
C16_Witness ==
    /\ eta.status = "ok"
    /\ PreSamples + PostSamples >= 1
    /\ \E ii, jj \in 1..Len(event_ts) :
          /\ ~InRange(ii)
          /\ InRange(jj)
          /\ EventSample(jj) + PostSamples = Len(x)

(* C17: bin_trains counts a spike of cell c at time t exactly once, in row *)
(* c and in the bin whose interval contains t, whenever start_time <= t    *)
(* and t lies before the last bin edge, a spike exactly at start_time      *)
(* included; spikes with t < start_time or t >= max_time are never         *)
(* counted.                                                                *)
SpikesOf(c, lo, hi) ==
    {i \in 1..Len(spike_ts) : spike_idx[i] = c /\ lo <= spike_ts[i] /\ spike_ts[i] < hi}

\* a spike on the last edge, below max_time: the claim leaves it either way
OnLastEdge(c, k) ==
    IF k = Len(raster.bins) - 1
    THEN {i \in 1..Len(spike_ts) :
             spike_idx[i] = c /\ spike_ts[i] = raster.bins[Len(raster.bins)]}
    ELSE {}

C17_CountedFromStartTime ==
    raster.status = "ok" =>
        \A c \in 1..Len(raster.raster) :
            \A k \in 1..(Len(raster.bins) - 1) :
                LET must == SpikesOf(c - 1, raster.bins[k], raster.bins[k + 1])
                IN  /\ raster.raster[c][k] >= Cardinality(must)
                    /\ raster.raster[c][k] <= Cardinality(must \cup OnLastEdge(c - 1, k))

====
